---- MODULE Spec2Model ----
(***************************************************************************)
(* Model of langchain/_api/module_import.py: create_importer builds the    *)
(* closure import_by_name(name), which forwards an attribute lookup to the *)
(* module a symbol moved to and may emit a deprecation warning.            *)
(*                                                                         *)
(* Strings that the code takes apart (module paths: split("."),            *)
(* startswith) are sequences of tokens, "." and "_" being tokens of their  *)
(* own: "langchain_community.llms" is                                      *)
(* <<"langchain", "_", "community", ".", "llms">>.                         *)
(***************************************************************************)
EXTENDS Naturals, Sequences, FiniteSets, TLC

VARIABLES
    package,             \* create_importer's argument `package`
    module_lookup,       \* `module_lookup or {}`
    deprecated_lookups,  \* `deprecated_lookups or {}`
    fallback_module,     \* `fallback_module`; None and "" are both <<>>
    all_module_lookup,   \* the merged dict the closure captures (line 82)
    interactive,         \* what is_interactive_env() answers
    warnings_as_errors,  \* whether warn_deprecated raises instead of warning
    sys_modules,         \* what importlib.import_module / getattr find
    requested,           \* the name the last import_by_name call was given
    result,              \* how the last import_by_name call ended
    notices,             \* the deprecation notices the last call emitted
    loaded,              \* the paths the last call gave to import_module
    calls,               \* history: number of calls so far
    failed_before,       \* history: names for which some call raised
    notice_total,        \* history: notices emitted, per name
    eligible_ok          \* history: returned calls that had to warn, per name

config == <<package, module_lookup, deprecated_lookups, fallback_module,
            all_module_lookup>>
environment == <<interactive, warnings_as_errors, sys_modules>>
outcome == <<requested, result, notices, loaded>>
history == <<calls, failed_before, notice_total, eligible_ok>>
vars == <<config, environment, outcome, history>>

----------------------------------------------------------------------------
\* Bounds of the model.

\* Largest number of entries of module_lookup, and of deprecated_lookups.
MaxEntries == 1

\* Largest number of calls whose history is followed (SpecSeq).
MaxCalls == 3

\* The names a caller asks for.
Names == {"OpenAI", "FakeLLM"}

LANGCHAIN == <<"langchain">>
LANGCHAIN_CORE == <<"langchain", "_", "core">>
LANGCHAIN_COMMUNITY == <<"langchain", "_", "community">>

CommunityLlms == LANGCHAIN_COMMUNITY \o <<".", "llms">>
CoreLlms == LANGCHAIN_CORE \o <<".", "llms">>
LangchainLlms == LANGCHAIN \o <<".", "llms">>
OsPath == <<"os", ".", "path">>
CommunityXLlms == LANGCHAIN_COMMUNITY \o <<"_", "x", ".", "llms">>

\* The module paths a lookup table may name.
Targets == {CommunityLlms, CoreLlms, LangchainLlms, OsPath, CommunityXLlms}

\* The modules that may or may not be installed. Of the other paths, os.path
\* (the standard library) always imports and no other one is installed.
HostModules == {CommunityLlms, CoreLlms}

\* The configured fallback_module: none, an allowed one, one outside.
Fallbacks == {<<>>, CoreLlms, OsPath}

\* A package on the 0.1 list and one that is not.
Packages == {<<"langchain", ".", "llms">>, <<"langchain", ".", "chains">>}

\* A host module is not installed, fails on import for another reason,
\* imports and lacks the names, or imports and defines the names.
ModuleStates == {"missing", "broken", "empty", "full"}

Lookups ==
    UNION {[D -> Targets] : D \in {S \in SUBSET Names : Cardinality(S) <= MaxEntries}}

----------------------------------------------------------------------------
\* The module's constants.

ALLOWED_TOP_LEVEL_PKGS == {LANGCHAIN_COMMUNITY, LANGCHAIN_CORE, LANGCHAIN}

_NAMESPACES_WITH_DEPRECATION_WARNINGS_IN_0_1 ==
    { <<"langchain">>,
      <<"langchain", ".", "adapters", ".", "openai">>,
      <<"langchain", ".", "agents", ".", "agent", "_", "toolkits">>,
      <<"langchain", ".", "callbacks">>,
      <<"langchain", ".", "chat", "_", "models">>,
      <<"langchain", ".", "docstore">>,
      <<"langchain", ".", "document", "_", "loaders">>,
      <<"langchain", ".", "document", "_", "transformers">>,
      <<"langchain", ".", "embeddings">>,
      <<"langchain", ".", "llms">>,
      <<"langchain", ".", "memory", ".", "chat", "_", "message", "_", "histories">>,
      <<"langchain", ".", "storage">>,
      <<"langchain", ".", "tools">>,
      <<"langchain", ".", "utilities">>,
      <<"langchain", ".", "vectorstores">> }

_should_deprecate_for_package(pkg) ==
    pkg \in _NAMESPACES_WITH_DEPRECATION_WARNINGS_IN_0_1

----------------------------------------------------------------------------
\* String operations.

\* s.startswith(p)
StartsWith(s, p) ==
    /\ Len(p) <= Len(s)
    /\ SubSeq(s, 1, Len(p)) = p

\* s.split(".")[0]: the tokens before the first "."
RECURSIVE SplitFirst(_)
SplitFirst(s) ==
    IF s = <<>> \/ Head(s) = "."
    THEN <<>>
    ELSE <<Head(s)>> \o SplitFirst(Tail(s))

\* {**(deprecated_lookups or {}), **(module_lookup or {})}
MergeLookups(dep, mod) ==
    [k \in (DOMAIN dep) \cup (DOMAIN mod) |->
        IF k \in DOMAIN mod THEN mod[k] ELSE dep[k]]

----------------------------------------------------------------------------
\* How a call ends.

NoValue == [module |-> <<>>, attr |-> ""]

Idle ==
    [kind |-> "idle", exc |-> "", by |-> "", subject |-> <<>>, attr |-> "",
     hint |-> FALSE, cause |-> "", value |-> NoValue]

\* `return result`: the attribute `name` of module m.
Returned(m, name) ==
    [kind |-> "return", exc |-> "", by |-> "", subject |-> <<>>, attr |-> "",
     hint |-> FALSE, cause |-> "", value |-> [module |-> m, attr |-> name]]

\* An exception of class exc raised by `by`, whose message names subject
\* (and attr), carries the install instruction when hint, and was raised
\* `from` an exception of class cause.
Raised(exc, by, subject, attr, hint, cause) ==
    [kind |-> "raise", exc |-> exc, by |-> by, subject |-> subject,
     attr |-> attr, hint |-> hint, cause |-> cause, value |-> NoValue]

\* warn_deprecated(since="0.1", pending=False, removal="0.4", message=...)
Notice(name, old, new) ==
    [since |-> "0.1", pending |-> FALSE, removal |-> "0.4",
     name |-> name, old |-> old, new |-> new]

Ended(r, n, l) == [result |-> r, notices |-> n, loaded |-> l]

----------------------------------------------------------------------------
\* The host's loader.

ModuleState(m) ==
    IF m \in DOMAIN sys_modules THEN sys_modules[m]
    ELSE IF m = OsPath THEN "full"
    ELSE "missing"

\* importlib.import_module(m) returns a module
ImportSucceeds(m) == ModuleState(m) \in {"empty", "full"}

\* The exception importlib.import_module(m) raises otherwise.
LoaderError(m) ==
    Raised(IF ModuleState(m) = "missing" THEN "ModuleNotFoundError" ELSE "ImportError",
           "importlib", m, "", FALSE, "")

\* getattr(module, name) returns a value
HasAttr(m, name) == ModuleState(m) = "full"

----------------------------------------------------------------------------
\* import_by_name.

\* Variant: a prefix test in place of the first dotted component.
IsAllowedMut(new_module) ==
    \E p \in ALLOWED_TOP_LEVEL_PKGS : StartsWith(new_module, p)

\* new_module.split(".")[0] in ALLOWED_TOP_LEVEL_PKGS
IsAllowed(new_module) == SplitFirst(new_module) \in ALLOWED_TOP_LEVEL_PKGS

\* Variant: the prefix cut short to "langchain".
IsCommunityMut(new_module) == StartsWith(new_module, LANGCHAIN)

\* new_module.startswith("langchain_community")
IsCommunity(new_module) == StartsWith(new_module, LANGCHAIN_COMMUNITY)

\* Variant: the importer remembers the names it warned about, and warns once.
ShouldWarnLookupMut(name) ==
    /\ ~interactive
    /\ name \in DOMAIN deprecated_lookups
    /\ _should_deprecate_for_package(package)
    /\ notice_total[name] = 0

\* The condition of the warning on the lookup path.
ShouldWarnLookup(name) ==
    /\ ~interactive
    /\ name \in DOMAIN deprecated_lookups
    /\ _should_deprecate_for_package(package)

\* The condition of the warning on the fallback path.
ShouldWarnFallback == ~interactive /\ _should_deprecate_for_package(package)

\* `result = getattr(module, name)`, the warning and `return result`, inside
\* one try whose handler turns every Exception into an AttributeError.
GetAndWarn(m, name, warn) ==
    IF ~HasAttr(m, name)
    THEN Ended(Raised("AttributeError", "import_by_name", m, name, FALSE,
                      "AttributeError"), <<>>, <<m>>)
    ELSE IF warn /\ warnings_as_errors
    THEN Ended(Raised("AttributeError", "import_by_name", m, name, FALSE,
                      "LangChainDeprecationWarning"), <<>>, <<m>>)
    ELSE Ended(Returned(m, name),
               IF warn THEN <<Notice(name, package, m)>> ELSE <<>>,
               <<m>>)

\* The branch taken when name is a key of all_module_lookup.
LookupBranch(name) ==
    LET new_module == all_module_lookup[name] IN
    IF ~IsAllowed(new_module)
    THEN Ended(Raised("AssertionError", "import_by_name", new_module, "",
                      FALSE, ""), <<>>, <<>>)
    ELSE IF ~ImportSucceeds(new_module)
    THEN IF LoaderError(new_module).exc = "ModuleNotFoundError"
            /\ IsCommunity(new_module)
         THEN Ended(Raised("ModuleNotFoundError", "import_by_name", new_module,
                           "", TRUE, "ModuleNotFoundError"), <<>>, <<new_module>>)
         ELSE Ended(LoaderError(new_module), <<>>, <<new_module>>)
    ELSE GetAndWarn(new_module, name, ShouldWarnLookup(name))

\* The branch taken when fallback_module is set.
FallbackBranch(name) ==
    IF ~ImportSucceeds(fallback_module)
    THEN Ended(Raised("AttributeError", "import_by_name", fallback_module, name,
                      FALSE, LoaderError(fallback_module).exc),
               <<>>, <<fallback_module>>)
    ELSE GetAndWarn(fallback_module, name, ShouldWarnFallback)

\* Variant: the message of the fallback branch, copied.
NoMatchMut(name) ==
    Ended(Raised("AttributeError", "import_by_name", fallback_module, name,
                 FALSE, ""), <<>>, <<>>)

\* The last statement: no table names the name and there is no fallback.
NoMatch(name) ==
    Ended(Raised("AttributeError", "import_by_name", package, name, FALSE, ""),
          <<>>, <<>>)

\* Variant: a target without the attribute falls through to the fallback.
ResolveMut(name) ==
    IF name \in DOMAIN all_module_lookup
          /\ ~(fallback_module # <<>>
               /\ LookupBranch(name).result.exc = "AttributeError")
    THEN LookupBranch(name)
    ELSE IF fallback_module # <<>>
    THEN FallbackBranch(name)
    ELSE NoMatch(name)

\* The whole body of import_by_name, as the way the call ends.
Resolve(name) ==
    IF name \in DOMAIN all_module_lookup
    THEN LookupBranch(name)
    ELSE IF fallback_module # <<>>
    THEN FallbackBranch(name)
    ELSE NoMatch(name)

import_by_name(name) ==
    /\ requested' = name
    /\ result' = Resolve(name).result
    /\ notices' = Resolve(name).notices
    /\ loaded' = Resolve(name).loaded
    /\ UNCHANGED <<config, environment>>

----------------------------------------------------------------------------
\* The specifications.

\* create_importer, in any environment.
Init ==
    /\ package \in Packages
    /\ module_lookup \in Lookups
    /\ deprecated_lookups \in Lookups
    /\ fallback_module \in Fallbacks
    /\ all_module_lookup = MergeLookups(deprecated_lookups, module_lookup)
    /\ interactive \in BOOLEAN
    /\ warnings_as_errors \in BOOLEAN
    /\ sys_modules \in [HostModules -> ModuleStates]
    /\ requested = ""
    /\ result = Idle
    /\ notices = <<>>
    /\ loaded = <<>>
    /\ calls = 0
    /\ failed_before = {}
    /\ notice_total = [n \in Names |-> 0]
    /\ eligible_ok = [n \in Names |-> 0]

\* A call of the importer.
Call(name) ==
    /\ import_by_name(name)
    /\ UNCHANGED history

\* A change of the environment ends the observation of the last call.
Forget ==
    /\ requested' = ""
    /\ result' = Idle
    /\ notices' = <<>>
    /\ loaded' = <<>>

\* The session becomes, or stops being, interactive.
SetInteractive(b) ==
    /\ interactive # b
    /\ interactive' = b
    /\ UNCHANGED <<config, warnings_as_errors, sys_modules, history>>
    /\ Forget

\* The warnings filter turns deprecation warnings into errors, or back.
SetWarningsFilter(b) ==
    /\ warnings_as_errors # b
    /\ warnings_as_errors' = b
    /\ UNCHANGED <<config, interactive, sys_modules, history>>
    /\ Forget

\* A module is installed, removed, broken, or gains or loses its names.
SetModule(m, st) ==
    /\ sys_modules[m] # st
    /\ sys_modules' = [sys_modules EXCEPT ![m] = st]
    /\ UNCHANGED <<config, interactive, warnings_as_errors, history>>
    /\ Forget

EnvStep ==
    \/ \E b \in BOOLEAN : SetInteractive(b)
    \/ \E b \in BOOLEAN : SetWarningsFilter(b)
    \/ \E m \in HostModules, st \in ModuleStates : SetModule(m, st)

Next ==
    \/ \E name \in Names : Call(name)
    \/ EnvStep

Spec == Init /\ [][Next]_vars

\* One importer called again and again while the environment changes: a
\* deprecated name that moved to the community package, every other name
\* served by the fallback module.
InitSeq ==
    /\ Init
    /\ module_lookup = <<>>
    /\ \A k \in DOMAIN deprecated_lookups : deprecated_lookups[k] = CommunityLlms
    /\ fallback_module = CoreLlms

\* A call whose place in the sequence of calls is recorded.
TrackedCall(name) ==
    /\ calls < MaxCalls
    /\ import_by_name(name)
    /\ calls' = calls + 1
    /\ failed_before' =
          IF result'.kind = "raise" THEN failed_before \cup {name} ELSE failed_before
    /\ notice_total' = [notice_total EXCEPT ![name] = @ + Len(notices')]
    /\ eligible_ok' =
          IF /\ result'.kind = "return"
             /\ ~interactive
             /\ package \in _NAMESPACES_WITH_DEPRECATION_WARNINGS_IN_0_1
             /\ (name \in DOMAIN deprecated_lookups
                   \/ name \notin DOMAIN all_module_lookup)
          THEN [eligible_ok EXCEPT ![name] = @ + 1]
          ELSE eligible_ok

NextSeq ==
    \/ \E name \in Names : TrackedCall(name)
    \/ EnvStep

SpecSeq == InitSeq /\ [][NextSeq]_vars

----------------------------------------------------------------------------
\* The properties. Each is about the state right after a call: `requested`
\* is the name asked for and the environment is the one the call ran in.

Called == result.kind # "idle"

InMerged == requested \in DOMAIN module_lookup \cup DOMAIN deprecated_lookups

\* The path the tables give for the requested name: module_lookup first.
Target ==
    IF requested \in DOMAIN module_lookup
    THEN module_lookup[requested]
    ELSE deprecated_lookups[requested]

RootAllowed(m) ==
    SplitFirst(m) \in {LANGCHAIN, LANGCHAIN_CORE, LANGCHAIN_COMMUNITY}

\* The session is not interactive and the package is on the 0.1 list.
WarningDue ==
    ~interactive /\ package \in _NAMESPACES_WITH_DEPRECATION_WARNINGS_IN_0_1

\* C1: for a name that is a key of module_lookup (also when it is a key of
\* deprecated_lookups too), a call whose target module loads and has the
\* attribute returns the attribute of the module module_lookup names, and
\* emits no deprecation notice, in every environment and for every package.
C1_ModuleLookupSilent ==
    (/\ Called
     /\ requested \in DOMAIN module_lookup
     /\ RootAllowed(module_lookup[requested])
     /\ ModuleState(module_lookup[requested]) = "full")
    => /\ result = Returned(module_lookup[requested], requested)
       /\ notices = <<>>

\* C2: for a name that is a key of deprecated_lookups and not of
\* module_lookup, a call whose target module loads and has the attribute
\* returns that attribute and emits exactly one notice when the session is
\* not interactive and the package is on the list, and none otherwise.
C2_DeprecatedOnly ==
    (/\ Called
     /\ requested \in DOMAIN deprecated_lookups
     /\ requested \notin DOMAIN module_lookup
     /\ RootAllowed(deprecated_lookups[requested])
     /\ ModuleState(deprecated_lookups[requested]) = "full")
    => /\ result = Returned(deprecated_lookups[requested], requested)
       /\ Len(notices) = IF WarningDue THEN 1 ELSE 0

\* C3: a name of the merged lookup whose target's first dotted component is
\* outside {langchain, langchain_core, langchain_community} always ends in
\* the configuration error (an AssertionError, not an AttributeError),
\* interactive or not and whatever the package; nothing is loaded and no
\* notice is emitted.
C3_ConfigurationError ==
    (Called /\ InMerged /\ ~RootAllowed(Target))
    => /\ result = Raised("AssertionError", "import_by_name", Target, "", FALSE, "")
       /\ result.exc # "AttributeError"
       /\ notices = <<>>
       /\ loaded = <<>>

C3_Witness ==
    /\ Called /\ InMerged /\ ~RootAllowed(Target)
    /\ StartsWith(Target, LANGCHAIN_COMMUNITY)
    /\ interactive
    /\ result.exc = "AssertionError"

\* C4: no module whose root is outside the allowed set is ever given to the
\* loader, be it a target of the merged lookup or the fallback module: such
\* a call ends in the configuration error instead.
C4_NoDisallowedLoad ==
    /\ \A i \in 1..Len(loaded) : RootAllowed(loaded[i])
    /\ (Called /\ ~InMerged /\ fallback_module # <<>> /\ ~RootAllowed(fallback_module))
       => result.exc = "AssertionError"

C6_Fallback ==
    (Called /\ ~InMerged /\ fallback_module # <<>>)
    => /\ loaded = <<fallback_module>>
       /\ IF ModuleState(fallback_module) = "full"
          THEN /\ result = Returned(fallback_module, requested)
               /\ Len(notices) = IF WarningDue THEN 1 ELSE 0
          ELSE /\ result.kind = "raise"
               /\ result.exc = "AttributeError"
               /\ result.subject = fallback_module
               /\ result.attr = requested
               /\ notices = <<>>

\* C7: for a name of neither table, with no fallback module, the call ends
\* in an AttributeError naming the owning package and the name, loads
\* nothing and emits no notice.
C7_NoMatch ==
    (Called /\ ~InMerged /\ fallback_module = <<>>)
    => /\ result = Raised("AttributeError", "import_by_name", package, requested,
                          FALSE, "")
       /\ loaded = <<>>
       /\ notices = <<>>

C7_Witness ==
    /\ Called /\ ~InMerged /\ fallback_module = <<>>
    /\ DOMAIN deprecated_lookups # {}
    /\ result.exc = "AttributeError"
    /\ result.subject = package

\* The module the call searches: the target, or else the fallback module.
Searched == IF InMerged THEN Target ELSE fallback_module

\* C8: a notice never blocks resolution: whenever the searched module loads
\* and has the attribute the call returns it, also when the notice channel
\* raises; an AttributeError is raised only when the name is absent or the
\* fallback module cannot be loaded.
C8_NoticeNeverBlocks ==
    Called =>
      /\ (/\ Searched # <<>>
          /\ InMerged => RootAllowed(Target)
          /\ ModuleState(Searched) = "full")
         => result = Returned(Searched, requested)
      /\ (result.kind = "raise" /\ result.exc = "AttributeError")
         => \/ Searched = <<>>
            \/ ModuleState(Searched) = "empty"
            \/ (~InMerged /\ ModuleState(Searched) \in {"missing", "broken"})

\* C9: for a name of the merged lookup whose target loads and lacks the
\* attribute, the call ends in an AttributeError naming the target and the
\* name; the fallback module is not tried, even if it is configured and has
\* the attribute, and no notice is emitted.
C9_MissingAttribute ==
    (Called /\ InMerged /\ RootAllowed(Target) /\ ModuleState(Target) = "empty")
    => /\ result = Raised("AttributeError", "import_by_name", Target, requested,
                          FALSE, "AttributeError")
       /\ loaded = <<Target>>
       /\ notices = <<>>

C9_Witness ==
    /\ Called /\ InMerged /\ RootAllowed(Target) /\ ModuleState(Target) = "empty"
    /\ fallback_module # <<>>
    /\ ModuleState(fallback_module) = "full"
    /\ WarningDue
    /\ result.exc = "AttributeError"

====
